---- MODULE Spec2Model ----
(***************************************************************************)
(* Model of FrenchPropertyInvestmentCalculator (french_mortgage.py).       *)
(*                                                                         *)
(* Python floats are modelled as fixed-point numbers: the integer v stands *)
(* for the real v / Scale.  +, - and comparisons are exact; *, / and **    *)
(* round their result to the nearest representable number, as the float    *)
(* operations do (at a coarser resolution).  A float's precision is        *)
(* relative: a float far below one (the monthly interest rate) is held at  *)
(* the finer resolution 1 / RateScale, and adding it to a float near one   *)
(* rounds it to the resolution of the sum, 1 / Scale.  Python ints (the    *)
(* year counts) are plain integers.                                        *)
(***************************************************************************)
EXTENDS Integers, Sequences, FiniteSets, TLC

\* Resolution of the modelled floats: v stands for v / Scale.
Scale == 100000

\* Resolution of the floats far below one: s stands for s / RateScale.
RateScale == 100 * Scale

\* ------------------------------------------------------------------------
\* Float arithmetic
\* ------------------------------------------------------------------------

\* The one element of a singleton set. { e(v) : v \in {x} } evaluates x once
\* and e on its value, which is how an operand is evaluated before the
\* operation is applied to it.
Only(S) == CHOOSE v \in S : TRUE

Abs(x) == IF x < 0 THEN -x ELSE x

Sign(x) == IF x < 0 THEN -1 ELSE 1

\* The digit base of the long multiplication below: a power of two b with
\* 2 * b * d inside the integer width.
DigitBase(d) ==
    IF d < 2^20 THEN 2^10 ELSE IF d < 2^24 THEN 2^6 ELSE IF d < 2^27 THEN 2^3 ELSE 2

\* One digit of the long multiplication: from <<q, r>> = h for the higher
\* digits of b to <<q, r>> with this digit included.
MulDivDigit(h, a, digit, base, d) ==
    Only({ <<base * h[1] + digit * (a \div d) + (tot \div d), tot % d>> :
           tot \in {base * h[2] + digit * (a % d)} })

\* <<q, r>> with a * b = q * d + r and 0 <= r < d, for a, b >= 0 and d > 0,
\* computed digit by digit of b so that no intermediate exceeds the width
\* of the result.
RECURSIVE MulDivRem(_, _, _)
MulDivRem(a, b, d) ==
    IF b = 0 THEN <<0, 0>>
    ELSE Only({ MulDivDigit(h, a, b % DigitBase(d), DigitBase(d), d) :
                h \in {MulDivRem(a, b \div DigitBase(d), d)} })

\* a * b / d rounded to the nearest integer (half away from zero).
MulDivRound(a, b, d) ==
    Only({ Sign(a) * Sign(b) * Sign(d)
             * (IF 2 * qr[2] >= Abs(d) THEN qr[1] + 1 ELSE qr[1]) :
           qr \in {MulDivRem(Abs(a), Abs(b), Abs(d))} })

\* float * float
Mul(x, y) == Only({ MulDivRound(a, b, Scale) : a \in {x}, b \in {y} })

\* float / float (the divisor is nonzero wherever the code divides)
Div(x, y) == Only({ MulDivRound(a, Scale, b) : a \in {x}, b \in {y} })

\* float / float with a quotient far below one, held at RateScale.
DivSmall(x, y) == Only({ MulDivRound(a, RateScale, b) : a \in {x}, b \in {y} })

\* float * small float: a float at Scale.
MulSmall(x, s) == Only({ MulDivRound(a, b, RateScale) : a \in {x}, b \in {s} })

\* float + small float: the small operand is rounded to the resolution of
\* the sum, so one too small for it is absorbed.
AddSmall(x, s) == x + MulDivRound(s, Scale, RateScale)

\* The float of the integer n, and of the decimal literal n / d.
Float(n) == n * Scale

Lit(n, d) == MulDivRound(n, Scale, d)

\* float ** int for a nonnegative integer exponent, by square and multiply.
RECURSIVE PowValue(_, _)
PowValue(x, n) ==
    IF n = 0 THEN Float(1)
    ELSE Only({ IF n % 2 = 1 THEN Mul(Mul(h, h), x) ELSE Mul(h, h) :
                h \in {PowValue(x, n \div 2)} })

Pow(x, n) == Only({ PowValue(a, n) : a \in {x} })

\* ------------------------------------------------------------------------
\* Policy constants of the calculator
\* ------------------------------------------------------------------------

MonthsPerYear == 12

\* survey_fee = 750.0
survey_fee == Float(750)

\* 0.004: yearly protection-insurance rate on the loan amount
insurance_rate == Lit(4, 1000)

\* 0.01 and 0.015: arrangement and registration fee rates
arrangement_rate == Lit(1, 100)

registration_rate == Lit(15, 1000)

\* break_even_year = None
None == 0

\* ------------------------------------------------------------------------
\* _validate_input: the message of the first failing check, or "ok"
\* ------------------------------------------------------------------------

\* Variant: a down payment equal to the price is let through.
validate_input_down_equal(d) ==
    IF d.property_price <= 0 THEN "Property price must be positive"
    ELSE IF d.down_payment < 0 THEN "Down payment cannot be negative"
    ELSE IF d.down_payment > d.property_price
         THEN "Down payment must be less than property price"
    ELSE IF d.interest_rate <= 0 THEN "Interest rate must be positive"
    ELSE IF d.loan_term_years <= 0 THEN "Loan term must be positive"
    ELSE IF d.monthly_rent < 0 THEN "Monthly rent cannot be negative"
    ELSE IF d.holding_period_years <= 0 THEN "Holding period must be positive"
    ELSE IF d.property_tax_annual < 0 THEN "Property tax cannot be negative"
    ELSE IF d.hoa_monthly < 0 THEN "HOA fees cannot be negative"
    ELSE IF d.maintenance_percent < 0
         THEN "Maintenance percentage cannot be negative"
    ELSE IF d.management_fee_percent < 0
         THEN "Management fee percentage cannot be negative"
    ELSE IF ~(0 <= d.vacancy_rate /\ d.vacancy_rate <= Float(100))
         THEN "Vacancy rate must be between 0 and 100"
    ELSE IF d.rent_increase_annual <= -Float(100)
         THEN "Rent increase must be greater than -100%"
    ELSE "ok"

\* Variant: the loan term is checked before the interest rate.
validate_input_term_first(d) ==
    IF d.property_price <= 0 THEN "Property price must be positive"
    ELSE IF d.down_payment < 0 THEN "Down payment cannot be negative"
    ELSE IF d.down_payment >= d.property_price
         THEN "Down payment must be less than property price"
    ELSE IF d.loan_term_years <= 0 THEN "Loan term must be positive"
    ELSE IF d.interest_rate <= 0 THEN "Interest rate must be positive"
    ELSE IF d.monthly_rent < 0 THEN "Monthly rent cannot be negative"
    ELSE IF d.holding_period_years <= 0 THEN "Holding period must be positive"
    ELSE IF d.property_tax_annual < 0 THEN "Property tax cannot be negative"
    ELSE IF d.hoa_monthly < 0 THEN "HOA fees cannot be negative"
    ELSE IF d.maintenance_percent < 0
         THEN "Maintenance percentage cannot be negative"
    ELSE IF d.management_fee_percent < 0
         THEN "Management fee percentage cannot be negative"
    ELSE IF ~(0 <= d.vacancy_rate /\ d.vacancy_rate <= Float(100))
         THEN "Vacancy rate must be between 0 and 100"
    ELSE IF d.rent_increase_annual <= -Float(100)
         THEN "Rent increase must be greater than -100%"
    ELSE "ok"

\* The checks of lines 244-269, in their order.
validate_input(d) ==
    IF d.property_price <= 0 THEN "Property price must be positive"
    ELSE IF d.down_payment < 0 THEN "Down payment cannot be negative"
    ELSE IF d.down_payment >= d.property_price
         THEN "Down payment must be less than property price"
    ELSE IF d.interest_rate <= 0 THEN "Interest rate must be positive"
    ELSE IF d.loan_term_years <= 0 THEN "Loan term must be positive"
    ELSE IF d.monthly_rent < 0 THEN "Monthly rent cannot be negative"
    ELSE IF d.holding_period_years <= 0 THEN "Holding period must be positive"
    ELSE IF d.property_tax_annual < 0 THEN "Property tax cannot be negative"
    ELSE IF d.hoa_monthly < 0 THEN "HOA fees cannot be negative"
    ELSE IF d.maintenance_percent < 0
         THEN "Maintenance percentage cannot be negative"
    ELSE IF d.management_fee_percent < 0
         THEN "Management fee percentage cannot be negative"
    ELSE IF ~(0 <= d.vacancy_rate /\ d.vacancy_rate <= Float(100))
         THEN "Vacancy rate must be between 0 and 100"
    ELSE IF d.rent_increase_annual <= -Float(100)
         THEN "Rent increase must be greater than -100%"
    ELSE "ok"

\* ------------------------------------------------------------------------
\* _calculate_monthly_payment
\* ------------------------------------------------------------------------

\* Lines 209 and 212: the divisor of the payment formula, num_payments or
\* (1 + monthly_rate) ** num_payments - 1.
payment_divisor(monthly_rate, num_payments) ==
    IF monthly_rate = 0 THEN Float(num_payments)
    ELSE Pow(AddSmall(Float(1), monthly_rate), num_payments) - Float(1)

\* The value returned when the divisor is nonzero; on a zero divisor the
\* division of line 214 raises ZeroDivisionError (see Setup).
calculate_monthly_payment(principal, monthly_rate, num_payments) ==
    IF monthly_rate = 0 THEN Div(principal, Float(num_payments))
    ELSE LET pow_n == Pow(AddSmall(Float(1), monthly_rate), num_payments)
             rate_times_one_plus_rate_pow_n == Mul(monthly_rate, pow_n)
             one_plus_rate_pow_n_minus_one  == pow_n - Float(1)
         IN  Div(MulSmall(principal, rate_times_one_plus_rate_pow_n),
                 one_plus_rate_pow_n_minus_one)

\* ------------------------------------------------------------------------
\* _calculate_yearly_principal_paydown
\* ------------------------------------------------------------------------

\* Lines 235-238: one month of the loop, from its locals r to its locals
\* after the month: balance, yearly_principal, and (observed, not returned
\* by the code) the interest charged, the number of months replayed and the
\* balance the last of them started from.
month_step(r, monthly_rate, monthly_payment) ==
    Only({ [balance          |-> r.balance - (monthly_payment - interest_payment),
            yearly_principal |-> r.yearly_principal
                                    + (monthly_payment - interest_payment),
            interest         |-> r.interest + interest_payment,
            months           |-> r.months + 1,
            last_start       |-> r.balance] :
           interest_payment \in {MulSmall(r.balance, monthly_rate)} })

\* Variant: the month loop runs to the year's end whatever the balance.
replay_stops_at_year_end(month, balance) == month > MonthsPerYear

\* Lines 231-233: range(1, 13) is exhausted, or `if balance <= 0: break`.
replay_stops(month, balance) == month > MonthsPerYear \/ balance <= 0

\* Lines 231-238: the month loop from month `month` on.
RECURSIVE replay_months(_, _, _, _)
replay_months(r, monthly_rate, monthly_payment, month) ==
    IF replay_stops(month, r.balance) THEN r
    ELSE Only({ replay_months(next, monthly_rate, monthly_payment, month + 1) :
                next \in {month_step(r, monthly_rate, monthly_payment)} })

\* Line 228-229: the locals before the month loop.
replay_start(starting_balance) ==
    [balance |-> starting_balance, yearly_principal |-> 0, interest |-> 0,
     months |-> 0, last_start |-> starting_balance]

\* Variant: the months are replayed in the years after the term too.
yearly_replay_past_term(starting_balance, monthly_rate, monthly_payment, current_year, loan_term_years) ==
    Only({ replay_months(start, monthly_rate, monthly_payment, 1) :
           start \in {replay_start(starting_balance)} })

\* The locals of _calculate_yearly_principal_paydown when it returns; the
\* returned value is the field yearly_principal.
yearly_replay(starting_balance, monthly_rate, monthly_payment, current_year, loan_term_years) ==
    IF current_year > loan_term_years
    THEN replay_start(starting_balance)
    ELSE Only({ replay_months(start, monthly_rate, monthly_payment, 1) :
                start \in {replay_start(starting_balance)} })

calculate_yearly_principal_paydown(starting_balance, monthly_rate, monthly_payment, current_year, loan_term_years) ==
    yearly_replay(starting_balance, monthly_rate, monthly_payment,
                  current_year, loan_term_years).yearly_principal

\* ------------------------------------------------------------------------
\* analyze: the statements before, inside and after the year loop
\* ------------------------------------------------------------------------

\* Variant: the flat survey fee is left out of the initial investment.
initial_investment_no_survey(down_payment, loan_amount) ==
    LET arrangement_fee  == Mul(loan_amount, arrangement_rate)
        registration_fee == Mul(loan_amount, registration_rate)
    IN  down_payment + arrangement_fee + registration_fee

\* Lines 113-116: the fees and the initial investment.
initial_investment_of(down_payment, loan_amount) ==
    LET arrangement_fee  == Mul(loan_amount, arrangement_rate)
        registration_fee == Mul(loan_amount, registration_rate)
    IN  down_payment + arrangement_fee + registration_fee + survey_fee

\* Line 94: interest_rate / 100 / 12, a float far below one.
monthly_rate_of(interest_rate) ==
    Div(DivSmall(interest_rate, Float(100)), Float(12))

\* Lines 92-116: the loan terms, MortgageDetails and the initial investment.
loan_setup(d) ==
    LET loan_amount   == d.property_price - d.down_payment
        monthly_rate  == monthly_rate_of(d.interest_rate)
        num_payments  == d.loan_term_years * 12
        monthly_mortgage_payment ==
            calculate_monthly_payment(loan_amount, monthly_rate, num_payments)
        monthly_life_insurance == Div(Mul(loan_amount, insurance_rate), Float(12))
        total_monthly_mortgage == monthly_mortgage_payment + monthly_life_insurance
        total_mortgage_payments == Mul(total_monthly_mortgage, Float(num_payments))
        total_interest == total_mortgage_payments - loan_amount
    IN  [loan_amount              |-> loan_amount,
         monthly_rate             |-> monthly_rate,
         num_payments             |-> num_payments,
         monthly_mortgage_payment |-> monthly_mortgage_payment,
         monthly_life_insurance   |-> monthly_life_insurance,
         total_monthly_mortgage   |-> total_monthly_mortgage,
         mortgage_details         |->
             [monthly_payment |-> total_monthly_mortgage,
              total_interest  |-> total_interest,
              total_payments  |-> total_mortgage_payments],
         initial_investment       |->
             initial_investment_of(d.down_payment, loan_amount)]

\* The divisor of the payment formula as analyze reaches it (lines 94-99).
setup_divisor(d) ==
    payment_divisor(monthly_rate_of(d.interest_rate), d.loan_term_years * 12)

\* The payment handed to _calculate_yearly_principal_paydown (line 142).
paydown_payment(t) == t.total_monthly_mortgage

\* Variant: the insurance reported beside the total is added into it.
expense_total_with_insurance(annual_mortgage, annual_property_tax, annual_hoa, annual_maintenance, annual_management, annual_insurance) ==
    annual_mortgage + annual_property_tax + annual_hoa
        + annual_maintenance + annual_management + annual_insurance

\* Line 136-137: the year's expense total.
expense_total(annual_mortgage, annual_property_tax, annual_hoa, annual_maintenance, annual_management, annual_insurance) ==
    annual_mortgage + annual_property_tax + annual_hoa
        + annual_maintenance + annual_management

\* Variant: the loop stops one year short, range(1, holding_period_years).
loop_continues_short(year, holding_period_years) == year < holding_period_years

\* Line 123: whether range(1, holding_period_years + 1) yields `year`.
loop_continues(year, holding_period_years) == year <= holding_period_years

\* Variant: the marker is set again at every year with a nonnegative total.
sets_break_even_again(break_even, cumulative) == cumulative >= 0

\* Line 152: whether this iteration sets the break-even marker.
sets_break_even(break_even, cumulative) ==
    break_even = None /\ cumulative >= 0

\* Variant: rent grows by the same amount each year, not compounded.
rent_multiplier_linear(rent_increase_annual, year) ==
    Float(1) + Mul(Div(rent_increase_annual, Float(100)), Float(year - 1))

\* Line 124: (1 + rent_increase_annual / 100) ** (year - 1).
rent_multiplier_of(rent_increase_annual, year) ==
    Pow(Float(1) + Div(rent_increase_annual, Float(100)), year - 1)

\* Variant: the management fee is charged on the rent net of vacancy.
managed_rent_net_of_vacancy(base_monthly_rent, effective_monthly_rent) ==
    effective_monthly_rent

\* Line 133: the monthly rent the management fee is charged on.
managed_rent(base_monthly_rent, effective_monthly_rent) == base_monthly_rent

\* Variant: a balance below zero is recorded as zero.
balance_after_floored(remaining_balance, principal_paydown) ==
    IF remaining_balance - principal_paydown < 0 THEN 0
    ELSE remaining_balance - principal_paydown

\* Line 147: remaining_balance -= principal_paydown.
balance_after(remaining_balance, principal_paydown) ==
    remaining_balance - principal_paydown

\* Variant: the equity counts the principal repaid only.
total_equity_without_down(down_payment, loan_amount, remaining_balance) ==
    loan_amount - remaining_balance

\* Line 155.
total_equity_of(down_payment, loan_amount, remaining_balance) ==
    down_payment + (loan_amount - remaining_balance)

\* Lines 124-174: one iteration of the year loop, from the carried state
\* c = [cumulative_cash_flow, remaining_balance, break_even_year]. Returns the
\* new carried state, the YearlyProjection appended, and the month loop's
\* locals as observed inside _calculate_yearly_principal_paydown.
year_iteration(d, t, c, year) ==
    LET rent_multiplier == rent_multiplier_of(d.rent_increase_annual, year)
        base_monthly_rent == Mul(d.monthly_rent, rent_multiplier)
        effective_monthly_rent ==
            Mul(base_monthly_rent, Float(1) - Div(d.vacancy_rate, Float(100)))
        annual_rental_income == Mul(effective_monthly_rent, Float(12))
        annual_mortgage      == Mul(t.total_monthly_mortgage, Float(12))
        annual_property_tax  == d.property_tax_annual
        annual_hoa           == Mul(d.hoa_monthly, Float(12))
        annual_maintenance   ==
            Mul(d.property_price, Div(d.maintenance_percent, Float(100)))
        annual_management    ==
            Mul(Mul(managed_rent(base_monthly_rent, effective_monthly_rent),
                    Float(12)),
                Div(d.management_fee_percent, Float(100)))
        annual_insurance     == Mul(t.loan_amount, insurance_rate)
        total_expenses ==
            expense_total(annual_mortgage, annual_property_tax, annual_hoa,
                          annual_maintenance, annual_management, annual_insurance)
        rep == yearly_replay(c.remaining_balance, t.monthly_rate,
                             paydown_payment(t), year, d.loan_term_years)
        principal_paydown == rep.yearly_principal
        remaining_balance ==
            balance_after(c.remaining_balance, principal_paydown)
        net_cash_flow == annual_rental_income - total_expenses
        cumulative_cash_flow == c.cumulative_cash_flow + net_cash_flow
        break_even_year ==
            IF sets_break_even(c.break_even_year, cumulative_cash_flow)
            THEN year ELSE c.break_even_year
        total_equity ==
            total_equity_of(d.down_payment, t.loan_amount, remaining_balance)
    IN  [carried |->
             [cumulative_cash_flow |-> cumulative_cash_flow,
              remaining_balance    |-> remaining_balance,
              break_even_year      |-> break_even_year],
         projection |->
             [year            |-> year,
              rental_income   |-> annual_rental_income,
              expenses        |->
                  [mortgage     |-> annual_mortgage,
                   property_tax |-> annual_property_tax,
                   hoa          |-> annual_hoa,
                   maintenance  |-> annual_maintenance,
                   management   |-> annual_management,
                   insurance    |-> annual_insurance,
                   total        |-> total_expenses],
              net_cash_flow        |-> net_cash_flow,
              cumulative_cash_flow |-> cumulative_cash_flow,
              principal_paydown    |-> principal_paydown,
              total_equity         |-> total_equity,
              remaining_balance    |-> remaining_balance],
         replay |-> [months |-> rep.months, interest |-> rep.interest,
                     last_start |-> rep.last_start]]

\* sum(f(p) for p in projections), added left to right from 0.
RECURSIVE SumRental(_)
SumRental(ps) ==
    IF ps = <<>> THEN 0
    ELSE SumRental(SubSeq(ps, 1, Len(ps) - 1)) + ps[Len(ps)].rental_income

RECURSIVE SumExpenses(_)
SumExpenses(ps) ==
    IF ps = <<>> THEN 0
    ELSE SumExpenses(SubSeq(ps, 1, Len(ps) - 1)) + ps[Len(ps)].expenses.total

\* Variant: the ratio is reported as a fraction, not as a percentage.
roi_as_fraction(net_profit, initial_investment) ==
    Div(net_profit, initial_investment)

\* Line 182.
roi_of(net_profit, initial_investment) ==
    Mul(Div(net_profit, initial_investment), Float(100))

\* Lines 176-197: the InvestmentSummary.
summarize(d, t, c, ps) ==
    LET total_rental_income == SumRental(ps)
        total_expenses_sum  == SumExpenses(ps)
        total_cash_flow     == total_rental_income - total_expenses_sum
        total_principal_paydown == t.loan_amount - c.remaining_balance
        final_equity == d.down_payment + total_principal_paydown
        net_profit   == total_cash_flow + final_equity - t.initial_investment
        roi          == roi_of(net_profit, t.initial_investment)
        avg_cash_on_cash_return ==
            Mul(Div(Div(total_cash_flow, Float(d.holding_period_years)),
                    t.initial_investment),
                Float(100))
    IN  [initial_investment      |-> t.initial_investment,
         loan_amount             |-> t.loan_amount,
         total_rental_income     |-> total_rental_income,
         total_expenses          |-> total_expenses_sum,
         total_cash_flow         |-> total_cash_flow,
         total_principal_paydown |-> total_principal_paydown,
         final_equity            |-> final_equity,
         net_profit              |-> net_profit,
         roi                     |-> roi,
         avg_cash_on_cash_return |-> avg_cash_on_cash_return,
         break_even_year         |-> c.break_even_year]

\* ------------------------------------------------------------------------
\* Inputs
\* ------------------------------------------------------------------------

\* Loan terms and holding periods of the scenario grid run over 1..Max.
MaxLoanTermYears == 3

MaxHoldingYears == 4

\* Term of the long loan that is held up to and past its maturity.
LongTermYears == 20

\* At most this many fields of an invalid input breach their invariant.
MaxBreaches == 2

\* tax, HOA and maintenance vary together: the defaults, or all charged.
CostProfiles ==
    { [property_tax_annual |-> 0, hoa_monthly |-> 0,
       maintenance_percent |-> Float(1)],
      [property_tax_annual |-> Float(100), hoa_monthly |-> Float(5),
       maintenance_percent |-> Float(2)] }

GridInputs ==
    { [property_price         |-> Float(2000),
       down_payment           |-> down,
       interest_rate          |-> rate,
       loan_term_years        |-> term,
       monthly_rent           |-> rent,
       holding_period_years   |-> holding,
       property_tax_annual    |-> cost.property_tax_annual,
       hoa_monthly            |-> cost.hoa_monthly,
       maintenance_percent    |-> cost.maintenance_percent,
       management_fee_percent |-> mgmt,
       vacancy_rate           |-> vacancy,
       rent_increase_annual   |-> growth] :
      down \in {0, Float(500)},
      rate \in {Lit(36, 10), Float(12)},
      term \in 1..MaxLoanTermYears,
      rent \in {0, Float(200)},
      holding \in 1..MaxHoldingYears,
      cost \in CostProfiles,
      mgmt \in {0, Float(10)},
      vacancy \in {0, Float(50), Float(100)},
      growth \in {-Float(90), 0, Float(10)} }

\* The dataclass defaults (lines 24-29) around the six mandatory fields.
WithDefaults(price, down, rate, term, rent, holding) ==
    [property_price         |-> price,
     down_payment           |-> down,
     interest_rate          |-> rate,
     loan_term_years        |-> term,
     monthly_rent           |-> rent,
     holding_period_years   |-> holding,
     property_tax_annual    |-> 0,
     hoa_monthly            |-> 0,
     maintenance_percent    |-> Float(1),
     management_fee_percent |-> 0,
     vacancy_rate           |-> 0,
     rent_increase_annual   |-> 0]

LongInputs ==
    { WithDefaults(Float(2000), 0, Lit(36, 10), LongTermYears, Float(20), holding) :
      holding \in (LongTermYears - 2)..(LongTermYears + 1) }

\* Field values that breach an invariant, the smallest breach included
\* (1 is the least positive float of the model).
Breaches ==
    { <<"property_price", 0>>, <<"property_price", -Float(2000)>>,
      <<"down_payment", -1>>, <<"down_payment", Float(2000)>>,
      <<"down_payment", Float(2500)>>,
      <<"interest_rate", 0>>, <<"interest_rate", -Float(3)>>,
      <<"loan_term_years", 0>>, <<"loan_term_years", -1>>,
      <<"monthly_rent", -1>>,
      <<"holding_period_years", 0>>,
      <<"property_tax_annual", -1>>,
      <<"hoa_monthly", -Float(5)>>,
      <<"maintenance_percent", -1>>,
      <<"management_fee_percent", -1>>,
      <<"vacancy_rate", -1>>, <<"vacancy_rate", Float(100) + 1>>,
      <<"vacancy_rate", Float(150)>>,
      <<"rent_increase_annual", -Float(100)>>,
      <<"rent_increase_annual", -Float(150)>> }

\* Field values on the valid side of an invariant's boundary. The least
\* positive vacancy and growth are absorbed by 1 - vacancy_rate / 100 and
\* 1 + rent_increase_annual / 100; the least growth is the least whose
\* factor 1 + rent_increase_annual / 100 is above zero. The least
\* positive interest rates: 1 has a monthly rate of zero, MonthsPerYear a
\* monthly rate that 1 + monthly_rate absorbs, 0.01 % one that it keeps.
\* The least loan term ends before the base scenario's holding period.
Edges ==
    { <<"down_payment", Float(1999)>>,
      <<"monthly_rent", 0>>,
      <<"maintenance_percent", 0>>,
      <<"vacancy_rate", Float(100)>>,
      <<"vacancy_rate", 1>>,
      <<"rent_increase_annual", Lit(-9999, 100)>>,
      <<"rent_increase_annual", 1>>,
      <<"interest_rate", 1>>,
      <<"interest_rate", MonthsPerYear>>,
      <<"interest_rate", Lit(1, 100)>>,
      <<"loan_term_years", 1>> }

Override(d, S) ==
    [f \in DOMAIN d |->
        IF \E b \in S : b[1] = f THEN (CHOOSE b \in S : b[1] = f)[2] ELSE d[f]]

OneValuePerField(S) == \A a, b \in S : a[1] = b[1] => a = b

\* The subsets of S of at most k elements.
RECURSIVE SubsetsUpTo(_, _)
SubsetsUpTo(S, k) ==
    IF k = 0 THEN {{}}
    ELSE LET smaller == SubsetsUpTo(S, k - 1)
         IN  smaller \cup { T \cup {x} : T \in smaller, x \in S }

OverriddenInputs ==
    LET base == WithDefaults(Float(2000), Float(500), Float(12), 2, Float(200), 2)
    IN  { Override(base, S) :
            S \in { T \in SubsetsUpTo(Breaches \cup Edges, MaxBreaches) :
                      T # {} /\ OneValuePerField(T) } }

Inputs == GridInputs \cup LongInputs \cup OverriddenInputs

\* ------------------------------------------------------------------------
\* State: one call of analyze, and a second call on the same calculator
\* ------------------------------------------------------------------------

VARIABLES
    input_data,            \* the argument of analyze
    pc,                    \* "validate", "setup", "loop", "returned", "raised"
    error,                 \* the message of the error once raised, else ""
    terms,                 \* <<>> or <<the locals set by lines 92-116>>
    year,                  \* the loop variable: the next year to project
    cumulative_cash_flow,
    remaining_balance,
    break_even_year,
    yearly_projections,
    replays,               \* per year, the month loop as it ran (observation)
    result,                \* <<>> or <<the PropertyInvestmentResult returned>>
    other                  \* the frame of a second call: the same, as fields

vars == <<input_data, pc, error, terms, year, cumulative_cash_flow,
          remaining_balance, break_even_year, yearly_projections, replays,
          result, other>>

\* The message of the ZeroDivisionError of line 214.
ZeroDivisionError == "float division by zero"

\* The frame of a call of analyze(d) before its first statement.
new_call(d) ==
    [input_data |-> d, pc |-> "validate", error |-> "", terms |-> <<>>,
     year |-> 0, cumulative_cash_flow |-> 0, remaining_balance |-> 0,
     break_even_year |-> None, yearly_projections |-> <<>>, replays |-> <<>>,
     result |-> <<>>]

\* No second call is made.
no_call == [pc |-> "none"]

Init ==
    /\ input_data \in Inputs
    /\ pc = "validate"
    /\ error = ""
    /\ terms = <<>>
    /\ year = 0
    /\ cumulative_cash_flow = 0
    /\ remaining_balance = 0
    /\ break_even_year = None
    /\ yearly_projections = <<>>
    /\ replays = <<>>
    /\ result = <<>>
    /\ other = no_call

\* Line 90: self._validate_input(input_data), which raises or returns.
Validate ==
    /\ pc = "validate"
    /\ LET msg == validate_input(input_data)
       IN  IF msg = "ok"
           THEN pc' = "setup" /\ error' = error
           ELSE pc' = "raised" /\ error' = msg
    /\ UNCHANGED <<input_data, terms, year, cumulative_cash_flow,
                   remaining_balance, break_even_year, yearly_projections,
                   replays, result, other>>

\* Lines 92-121: loan terms, fees and the loop's initial state; the division
\* of line 214 raises when its divisor is zero.
Setup ==
    /\ pc = "setup"
    /\ IF setup_divisor(input_data) = 0
       THEN /\ pc' = "raised"
            /\ error' = ZeroDivisionError
            /\ UNCHANGED <<terms, year, cumulative_cash_flow,
                           remaining_balance, break_even_year,
                           yearly_projections>>
       ELSE /\ \E t \in {loan_setup(input_data)} :
                   /\ terms' = <<t>>
                   /\ cumulative_cash_flow' = -t.initial_investment
                   /\ remaining_balance' = t.loan_amount
            /\ yearly_projections' = <<>>
            /\ break_even_year' = None
            /\ year' = 1
            /\ pc' = "loop"
            /\ error' = error
    /\ UNCHANGED <<input_data, replays, result, other>>

carried == [cumulative_cash_flow |-> cumulative_cash_flow,
            remaining_balance    |-> remaining_balance,
            break_even_year      |-> break_even_year]

\* Lines 123-174: one iteration of for year in range(1, holding + 1).
YearIteration ==
    /\ pc = "loop"
    /\ loop_continues(year, input_data.holding_period_years)
    /\ \E it \in {year_iteration(input_data, terms[1], carried, year)} :
           /\ cumulative_cash_flow' = it.carried.cumulative_cash_flow
           /\ remaining_balance' = it.carried.remaining_balance
           /\ break_even_year' = it.carried.break_even_year
           /\ yearly_projections' = Append(yearly_projections, it.projection)
           /\ replays' = Append(replays, it.replay)
    /\ year' = year + 1
    /\ UNCHANGED <<input_data, pc, error, terms, result, other>>

\* Lines 176-204: the loop is exhausted; summarise and return.
Return ==
    /\ pc = "loop"
    /\ ~loop_continues(year, input_data.holding_period_years)
    /\ result' = << [input              |-> input_data,
                     mortgage           |-> terms[1].mortgage_details,
                     yearly_projections |-> yearly_projections,
                     summary            |-> summarize(input_data, terms[1],
                                                      carried,
                                                      yearly_projections)] >>
    /\ pc' = "returned"
    /\ UNCHANGED <<input_data, error, terms, year, cumulative_cash_flow,
                   remaining_balance, break_even_year, yearly_projections,
                   replays, other>>

Next == Validate \/ Setup \/ YearIteration \/ Return

Spec == Init /\ [][Next]_vars

\* ------------------------------------------------------------------------
\* analyze as a function of its argument: the call run alone to its end
\* ------------------------------------------------------------------------

\* Lines 123-174: the year loop from year y on, from the carried state c and
\* the projections ps appended so far.
RECURSIVE run_years(_, _, _, _, _)
run_years(d, t, c, ps, y) ==
    IF ~loop_continues(y, d.holding_period_years)
    THEN [carried |-> c, yearly_projections |-> ps]
    ELSE Only({ run_years(d, t, it.carried, Append(ps, it.projection), y + 1) :
                it \in {year_iteration(d, t, c, y)} })

\* Lines 118-204 once the loan terms t are set.
run_from_setup(d, t) ==
    Only({ [input              |-> d,
            mortgage           |-> t.mortgage_details,
            yearly_projections |-> r.yearly_projections,
            summary            |-> summarize(d, t, r.carried,
                                             r.yearly_projections)] :
           r \in {run_years(d, t,
                            [cumulative_cash_flow |-> -t.initial_investment,
                             remaining_balance    |-> t.loan_amount,
                             break_even_year      |-> None],
                            <<>>, 1)} })

\* The outcome of analyze(d): the error raised or the result returned.
analyze(d) ==
    IF validate_input(d) # "ok"
    THEN [pc |-> "raised", value |-> validate_input(d)]
    ELSE IF setup_divisor(d) = 0
    THEN [pc |-> "raised", value |-> ZeroDivisionError]
    ELSE [pc |-> "returned",
          value |-> Only({ run_from_setup(d, t) : t \in {loan_setup(d)} })]

\* ------------------------------------------------------------------------
\* Two calls of analyze on one calculator, their steps interleaved
\* ------------------------------------------------------------------------

\* Terms of the loans of the two calls run over 1..MaxPairYears, held one
\* year longer.
MaxPairYears == 2

PairInputs ==
    { [WithDefaults(Float(2000), Float(500), rate, term, Float(200),
                    MaxPairYears + 1)
         EXCEPT !.management_fee_percent = Float(10),
                !.vacancy_rate = vacancy,
                !.rent_increase_annual = growth] :
      rate \in {Float(12)},
      term \in 1..MaxPairYears,
      vacancy \in {0, Float(50)},
      growth \in {0, Float(10)} }
    \cup { WithDefaults(Float(2000), Float(500), rate, 1, Float(200), 1) :
           rate \in {0, MonthsPerYear} }

\* The variables of the first call.
call_vars == <<input_data, pc, error, terms, year, cumulative_cash_flow,
               remaining_balance, break_even_year, yearly_projections,
               replays, result>>

InitPair ==
    /\ input_data \in PairInputs
    /\ other \in { new_call(d) : d \in PairInputs }
    /\ pc = "validate"
    /\ error = ""
    /\ terms = <<>>
    /\ year = 0
    /\ cumulative_cash_flow = 0
    /\ remaining_balance = 0
    /\ break_even_year = None
    /\ yearly_projections = <<>>
    /\ replays = <<>>
    /\ result = <<>>

\* Variant: the loop's running totals are kept on the calculator, so the
\* second call reads those of the first.
frame_carried_shared(f) == carried

\* Lines 119-121: the loop-carried locals of the call whose frame is f.
frame_carried(f) ==
    [cumulative_cash_flow |-> f.cumulative_cash_flow,
     remaining_balance    |-> f.remaining_balance,
     break_even_year      |-> f.break_even_year]

\* Line 90 in the second call.
OtherValidate ==
    /\ other.pc = "validate"
    /\ LET msg == validate_input(other.input_data)
       IN  other' = IF msg = "ok"
                    THEN [other EXCEPT !.pc = "setup"]
                    ELSE [other EXCEPT !.pc = "raised", !.error = msg]
    /\ UNCHANGED call_vars

\* Lines 92-121 in the second call.
OtherSetup ==
    /\ other.pc = "setup"
    /\ other' =
          IF setup_divisor(other.input_data) = 0
          THEN [other EXCEPT !.pc = "raised", !.error = ZeroDivisionError]
          ELSE Only({ [other EXCEPT !.terms = <<t>>,
                                    !.cumulative_cash_flow = -t.initial_investment,
                                    !.remaining_balance = t.loan_amount,
                                    !.yearly_projections = <<>>,
                                    !.break_even_year = None,
                                    !.year = 1,
                                    !.pc = "loop"] :
                      t \in {loan_setup(other.input_data)} })
    /\ UNCHANGED call_vars

\* Lines 123-174 in the second call.
OtherYearIteration ==
    /\ other.pc = "loop"
    /\ loop_continues(other.year, other.input_data.holding_period_years)
    /\ \E it \in {year_iteration(other.input_data, other.terms[1],
                                  frame_carried(other), other.year)} :
           other' = [other EXCEPT
                       !.cumulative_cash_flow = it.carried.cumulative_cash_flow,
                       !.remaining_balance = it.carried.remaining_balance,
                       !.break_even_year = it.carried.break_even_year,
                       !.yearly_projections = Append(@, it.projection),
                       !.replays = Append(@, it.replay),
                       !.year = @ + 1]
    /\ UNCHANGED call_vars

\* Lines 176-204 in the second call.
OtherReturn ==
    /\ other.pc = "loop"
    /\ ~loop_continues(other.year, other.input_data.holding_period_years)
    /\ other' = [other EXCEPT
                   !.result = << [input              |-> other.input_data,
                                  mortgage           |-> other.terms[1].mortgage_details,
                                  yearly_projections |-> other.yearly_projections,
                                  summary            |->
                                      summarize(other.input_data, other.terms[1],
                                                frame_carried(other),
                                                other.yearly_projections)] >>,
                   !.pc = "returned"]
    /\ UNCHANGED call_vars

NextPair ==
    \/ Validate \/ Setup \/ YearIteration \/ Return
    \/ OtherValidate \/ OtherSetup \/ OtherYearIteration \/ OtherReturn

SpecPair == InitPair /\ [][NextPair]_vars

\* ------------------------------------------------------------------------
\* Shorthands for the properties
\* ------------------------------------------------------------------------

returned == pc = "returned"

\* A ValueError of _validate_input was raised.
raised_value_error == pc = "raised" /\ error # ZeroDivisionError

summary == result[1].summary

loan_amount_of(d) == d.property_price - d.down_payment

\* ------------------------------------------------------------------------
\* C1: analyze fails with a validation error exactly when the input breaches
\* an invariant of the input, and it fails before anything is computed: an
\* input that breaches an invariant never has loan terms, a projection record
\* or a result.
\* ------------------------------------------------------------------------

SatisfiesInvariants(d) ==
    /\ d.property_price > 0
    /\ 0 <= d.down_payment /\ d.down_payment < d.property_price
    /\ d.interest_rate > 0
    /\ d.loan_term_years > 0
    /\ d.monthly_rent >= 0
    /\ d.holding_period_years > 0
    /\ d.property_tax_annual >= 0
    /\ d.hoa_monthly >= 0
    /\ d.maintenance_percent >= 0
    /\ d.management_fee_percent >= 0
    /\ 0 <= d.vacancy_rate /\ d.vacancy_rate <= Float(100)
    /\ d.rent_increase_annual > -Float(100)

C1_ValidationIffBreach ==
    /\ pc # "validate" =>
          (raised_value_error <=> ~SatisfiesInvariants(input_data))
    /\ ~SatisfiesInvariants(input_data) =>
          terms = <<>> /\ yearly_projections = <<>> /\ result = <<>>

C1_Witness ==
    /\ pc = "raised"
    /\ input_data.vacancy_rate = Float(150)
    /\ yearly_projections = <<>>

\* ------------------------------------------------------------------------
\* C2: the error raised is that of the first breached invariant in the fixed
\* order price, down payment negative, down payment >= price, interest rate,
\* loan term, rent, holding period, property tax, HOA, maintenance rate,
\* management rate, vacancy rate, rent growth.
\* ------------------------------------------------------------------------

BreachMessages ==
    << "Property price must be positive",
       "Down payment cannot be negative",
       "Down payment must be less than property price",
       "Interest rate must be positive",
       "Loan term must be positive",
       "Monthly rent cannot be negative",
       "Holding period must be positive",
       "Property tax cannot be negative",
       "HOA fees cannot be negative",
       "Maintenance percentage cannot be negative",
       "Management fee percentage cannot be negative",
       "Vacancy rate must be between 0 and 100",
       "Rent increase must be greater than -100%" >>

Breached(d) ==
    << ~(d.property_price > 0),
       ~(d.down_payment >= 0),
       ~(d.down_payment < d.property_price),
       ~(d.interest_rate > 0),
       ~(d.loan_term_years > 0),
       ~(d.monthly_rent >= 0),
       ~(d.holding_period_years > 0),
       ~(d.property_tax_annual >= 0),
       ~(d.hoa_monthly >= 0),
       ~(d.maintenance_percent >= 0),
       ~(d.management_fee_percent >= 0),
       ~(0 <= d.vacancy_rate /\ d.vacancy_rate <= Float(100)),
       ~(d.rent_increase_annual > -Float(100)) >>

BreachCount(d) == Cardinality({ i \in DOMAIN Breached(d) : Breached(d)[i] })

C2_FirstBreachReported ==
    raised_value_error =>
        \E i \in DOMAIN BreachMessages :
            /\ Breached(input_data)[i]
            /\ \A j \in 1..(i - 1) : ~Breached(input_data)[j]
            /\ error = BreachMessages[i]

C2_Witness ==
    /\ pc = "raised"
    /\ BreachCount(input_data) >= 2
    /\ error = "Interest rate must be positive"
    /\ input_data.vacancy_rate = Float(150)

\* ------------------------------------------------------------------------
\* C3: the projections returned are exactly holding_period_years records,
\* and the i-th record emitted carries year index i.
\* ------------------------------------------------------------------------

C3_OneRecordPerYear ==
    /\ \A i \in 1..Len(yearly_projections) : yearly_projections[i].year = i
    /\ returned =>
          /\ result[1].yearly_projections = yearly_projections
          /\ Len(yearly_projections) = input_data.holding_period_years

C3_Witness ==
    /\ returned
    /\ Len(result[1].yearly_projections) = MaxHoldingYears
    /\ MaxHoldingYears >= 3

\* ------------------------------------------------------------------------
\* C4: in every record, cumulative_cash_flow = -initial_investment + the sum
\* of net_cash_flow over the years up to it, where initial_investment is the
\* down payment + 1% and 1.5% of the loan amount + the 750 survey fee, and is
\* the figure the summary reports.
\* ------------------------------------------------------------------------

RECURSIVE SumNetCashFlow(_, _)
SumNetCashFlow(ps, y) ==
    IF y = 0 THEN 0 ELSE SumNetCashFlow(ps, y - 1) + ps[y].net_cash_flow

UpfrontInvestment(d) ==
    d.down_payment + Mul(loan_amount_of(d), Lit(1, 100))
        + Mul(loan_amount_of(d), Lit(15, 1000)) + Float(750)

C4_CumulativeCashFlow ==
    /\ \A y \in 1..Len(yearly_projections) :
          yearly_projections[y].cumulative_cash_flow =
              -UpfrontInvestment(input_data) + SumNetCashFlow(yearly_projections, y)
    /\ returned => summary.initial_investment = UpfrontInvestment(input_data)

C4_Witness ==
    /\ returned
    /\ Len(yearly_projections) >= 3
    /\ \A y \in 1..Len(yearly_projections) :
          yearly_projections[y].net_cash_flow # 0
    /\ yearly_projections[3].cumulative_cash_flow
          # yearly_projections[2].cumulative_cash_flow

\* ------------------------------------------------------------------------
\* C5: the break-even year is the first year whose cumulative cash flow is
\* >= 0, unset exactly when there is none; it is that year after every
\* iteration, so once set no later iteration changes it, also when the
\* cumulative cash flow falls below zero again.
\* ------------------------------------------------------------------------

Crossings(ps) == { y \in 1..Len(ps) : ps[y].cumulative_cash_flow >= 0 }

FirstCrossing(ps) ==
    IF Crossings(ps) = {} THEN None
    ELSE CHOOSE y \in Crossings(ps) : \A z \in Crossings(ps) : y <= z

C5_BreakEvenFirstCrossing ==
    /\ break_even_year = FirstCrossing(yearly_projections)
    /\ returned => summary.break_even_year = FirstCrossing(result[1].yearly_projections)

C5_Witness ==
    /\ returned
    /\ summary.break_even_year = 1
    /\ Len(yearly_projections) >= 3
    /\ yearly_projections[2].cumulative_cash_flow < 0
    /\ yearly_projections[3].cumulative_cash_flow < 0

\* ------------------------------------------------------------------------
\* C6: held to the end of the loan term, the loan is amortized to zero: the
\* balance recorded for year = loan term is 0 and the summary's total
\* principal paydown is the loan amount, both within the tolerance.
\* ------------------------------------------------------------------------

\* Half a percent of the loan: the widest margin the repository's tests
\* allow around the loan amount, far above the rounding of the arithmetic.
AmortizationTolerance(loan_amount) == Mul(loan_amount, Lit(5, 1000))

C6_AmortizesToZero ==
    (returned /\ input_data.holding_period_years >= input_data.loan_term_years) =>
        LET loan == loan_amount_of(input_data)
            at_maturity == yearly_projections[input_data.loan_term_years]
        IN  /\ Abs(at_maturity.remaining_balance) <= AmortizationTolerance(loan)
            /\ Abs(summary.total_principal_paydown - loan)
                  <= AmortizationTolerance(loan)

\* ------------------------------------------------------------------------
\* C7: in every projected year up to the loan term, the remaining balance is
\* strictly below that of the year before (the loan amount before year 1),
\* and the total equity strictly above (the down payment before year 1).
\* ------------------------------------------------------------------------

BalanceBefore(y) ==
    IF y = 1 THEN loan_amount_of(input_data)
    ELSE yearly_projections[y - 1].remaining_balance

EquityBefore(y) ==
    IF y = 1 THEN input_data.down_payment
    ELSE yearly_projections[y - 1].total_equity

C7_BalanceStrictlyDecreasing ==
    \A y \in 1..Len(yearly_projections) :
        y <= input_data.loan_term_years =>
            /\ yearly_projections[y].remaining_balance < BalanceBefore(y)
            /\ yearly_projections[y].total_equity > EquityBefore(y)

\* ------------------------------------------------------------------------
\* C8: when the loan term is at least the holding period, from each
\* projected year to the next the principal paydown strictly increases and
\* the interest charged over the year's replayed months strictly decreases.
\* ------------------------------------------------------------------------

C8_PrincipalUpInterestDown ==
    input_data.loan_term_years >= input_data.holding_period_years =>
        \A y \in 1..(Len(yearly_projections) - 1) :
            /\ yearly_projections[y + 1].principal_paydown
                  > yearly_projections[y].principal_paydown
            /\ replays[y + 1].interest < replays[y].interest

\* ------------------------------------------------------------------------
\* C9: in every projected year, expenses.total is mortgage + property tax +
\* HOA + maintenance + management, without the insurance reported beside
\* it, and expenses.mortgage is 12 x (P&I payment + monthly insurance
\* charge), the same in every year, the years after the loan term included.
\* ------------------------------------------------------------------------

C9_ExpenseTotalAndMortgage ==
    \A y \in 1..Len(yearly_projections) :
        LET e == yearly_projections[y].expenses
        IN  /\ e.total = e.mortgage + e.property_tax + e.hoa
                            + e.maintenance + e.management
            /\ e.mortgage = Mul(terms[1].monthly_mortgage_payment
                                  + terms[1].monthly_life_insurance, Float(12))
            /\ e.mortgage = yearly_projections[1].expenses.mortgage
            /\ e.insurance = Mul(loan_amount_of(input_data), Lit(4, 1000))

C9_Witness ==
    /\ returned
    /\ Len(yearly_projections) > input_data.loan_term_years
    /\ LET e == yearly_projections[Len(yearly_projections)].expenses
       IN  /\ e.insurance > 0
           /\ e.mortgage > 0
           /\ e.property_tax > 0
           /\ e.management > 0

\* ------------------------------------------------------------------------
\* C10: in the summary returned, roi = net_profit / initial_investment x 100,
\* net_profit = total_cash_flow + final_equity - initial_investment, and
\* total_cash_flow = total_rental_income - total_expenses, the two totals
\* being the sums of the records' rental_income and expenses.total.
\* ------------------------------------------------------------------------

RECURSIVE SumUpTo(_, _)
SumUpTo(values, y) == IF y = 0 THEN 0 ELSE SumUpTo(values, y - 1) + values[y]

C10_RoiFromReportedFields ==
    returned =>
        LET ps == result[1].yearly_projections
            rents  == [y \in 1..Len(ps) |-> ps[y].rental_income]
            totals == [y \in 1..Len(ps) |-> ps[y].expenses.total]
        IN  /\ summary.roi =
                  Mul(Div(summary.net_profit, summary.initial_investment), Float(100))
            /\ summary.net_profit =
                  summary.total_cash_flow + summary.final_equity
                      - summary.initial_investment
            /\ summary.total_cash_flow =
                  summary.total_rental_income - summary.total_expenses
            /\ summary.total_rental_income = SumUpTo(rents, Len(ps))
            /\ summary.total_expenses = SumUpTo(totals, Len(ps))

C10_Witness ==
    /\ returned
    /\ Len(yearly_projections) >= 2
    /\ summary.roi > Float(100)
    /\ summary.total_rental_income > 0

\* ------------------------------------------------------------------------
\* C11: principal is conserved: for every projected year within the loan
\* term, the principal paydowns of the years up to it plus the balance
\* remaining after it are the loan amount; and in the summary returned,
\* total_principal_paydown is the sum of all the records' principal_paydown
\* and final_equity is the down payment plus that sum.
\* ------------------------------------------------------------------------

Paydowns(ps) == [y \in 1..Len(ps) |-> ps[y].principal_paydown]

C11_PrincipalConservation ==
    /\ \A y \in 1..Len(yearly_projections) :
          y <= input_data.loan_term_years =>
              SumUpTo(Paydowns(yearly_projections), y)
                  + yearly_projections[y].remaining_balance
                = loan_amount_of(input_data)
    /\ returned =>
          LET ps == result[1].yearly_projections
              paid == SumUpTo(Paydowns(ps), Len(ps))
          IN  /\ summary.total_principal_paydown = paid
              /\ summary.final_equity = input_data.down_payment + paid

C11_Witness ==
    /\ returned
    /\ input_data.loan_term_years >= 2
    /\ Len(yearly_projections) > input_data.loan_term_years
    /\ yearly_projections[1].principal_paydown > 0
    /\ yearly_projections[2].principal_paydown
          > yearly_projections[1].principal_paydown
    /\ summary.total_principal_paydown # loan_amount_of(input_data)

\* ------------------------------------------------------------------------
\* C12: the rental income of year y is 12 x monthly_rent x
\* (1 + growth/100)^(y-1) x (1 - vacancy/100), the factors multiplied in the
\* code's order. With a positive rent and a vacancy below 100: under a
\* positive growth it strictly increases from each year to the next, and
\* the scenario that differs only by a higher vacancy has a strictly lower
\* rental income in that year.
\* ------------------------------------------------------------------------

ExpectedRentalIncome(d, y) ==
    LET growth_factor == Float(1) + Div(d.rent_increase_annual, Float(100))
        occupancy     == Float(1) - Div(d.vacancy_rate, Float(100))
    IN  Mul(Mul(Mul(d.monthly_rent, Pow(growth_factor, y - 1)), occupancy),
            Float(12))

\* The vacancy rates of the scenarios compared.
VacancyRates == {0, 1, Float(50), Float(100)}

GrowthFactor(d) == Float(1) + Div(d.rent_increase_annual, Float(100))

Occupancy(d) == Float(1) - Div(d.vacancy_rate, Float(100))

outcome_of(f) ==
    [pc |-> f.pc, value |-> IF f.pc = "returned" THEN f.result[1] ELSE f.error]

ended(f) == f.pc \in {"returned", "raised"}

C13_NoCrossTalk ==
    /\ ended([pc |-> pc]) =>
          outcome_of([pc |-> pc, result |-> result, error |-> error])
              = analyze(input_data)
    /\ ended(other) => outcome_of(other) = analyze(other.input_data)
    /\ returned => result[1].input = input_data
    /\ other.pc = "returned" => other.result[1].input = other.input_data

\* Both calls returned, on inputs with different results, the second having
\* started its loop before the first and ended it after.
C13_Witness ==
    /\ returned
    /\ other.pc = "returned"
    /\ input_data # other.input_data
    /\ result[1].summary # other.result[1].summary
    /\ result[1].yearly_projections[1].remaining_balance
          # other.result[1].yearly_projections[1].remaining_balance

\* ------------------------------------------------------------------------
\* C14: on every input that satisfies the invariants, analyze raises no
\* error: the divisors it meets (the payment count or (1 + r)^n - 1, the
\* initial investment, the holding period) are nonzero; and its work is one
\* iteration per holding year, each replaying at most 12 months.
\* ------------------------------------------------------------------------

C14_TotalOnValidInput ==
    SatisfiesInvariants(input_data) =>
        /\ pc # "raised"
        /\ pc \notin {"validate", "setup"} =>
              /\ setup_divisor(input_data) # 0
              /\ input_data.holding_period_years # 0
        /\ terms # <<>> => terms[1].initial_investment # 0
        /\ Len(replays) <= input_data.holding_period_years
        /\ \A y \in 1..Len(replays) : replays[y].months <= MonthsPerYear
        /\ returned => Len(replays) = input_data.holding_period_years

\* ------------------------------------------------------------------------
\* C15: the principal paydown of a year is that of replaying its months
\* with the principal-and-interest payment alone, each month retiring
\* (P&I payment) - (balance x monthly rate); the insurance charge retires
\* no principal.
\* ------------------------------------------------------------------------

C15_PaydownFromPrincipalAndInterest ==
    \A y \in 1..Len(yearly_projections) :
        yearly_projections[y].principal_paydown
          = calculate_yearly_principal_paydown(
                BalanceBefore(y), terms[1].monthly_rate,
                terms[1].monthly_mortgage_payment, y,
                input_data.loan_term_years)

\* ------------------------------------------------------------------------
\* C16: when the holding period exceeds the loan term, every year after the
\* term replays no month and records a principal paydown of 0 and the
\* remaining balance and total equity recorded for the year of the term,
\* whether that balance is positive, zero or negative.
\* ------------------------------------------------------------------------

C16_NothingPaidAfterTerm ==
    \A y \in 1..Len(yearly_projections) :
        y > input_data.loan_term_years =>
            LET at_term == yearly_projections[input_data.loan_term_years]
            IN  /\ replays[y].months = 0
                /\ yearly_projections[y].principal_paydown = 0
                /\ yearly_projections[y].remaining_balance
                      = at_term.remaining_balance
                /\ yearly_projections[y].total_equity = at_term.total_equity

\* A loan whose balance is still positive at the end of its term, held on.
C16_Witness ==
    /\ returned
    /\ Len(yearly_projections) > input_data.loan_term_years
    /\ yearly_projections[input_data.loan_term_years].remaining_balance > 0
    /\ yearly_projections[Len(yearly_projections)].principal_paydown = 0

\* ------------------------------------------------------------------------
\* C17: in every record, total_equity is the down payment plus the loan
\* amount less the balance remaining after that year's paydown, so
\* total_equity + remaining_balance is the property price; and the
\* summary's final_equity is the last record's total_equity.
\* ------------------------------------------------------------------------

C17_EquityPlusBalanceIsPrice ==
    /\ \A y \in 1..Len(yearly_projections) :
          LET p == yearly_projections[y]
          IN  /\ p.remaining_balance = BalanceBefore(y) - p.principal_paydown
              /\ p.total_equity
                    = input_data.down_payment
                        + (loan_amount_of(input_data) - p.remaining_balance)
              /\ p.total_equity + p.remaining_balance = input_data.property_price
    /\ returned =>
          summary.final_equity
            = result[1].yearly_projections[Len(yearly_projections)].total_equity

C17_Witness ==
    /\ returned
    /\ input_data.down_payment > 0
    /\ Len(yearly_projections) >= 2
    /\ yearly_projections[1].remaining_balance > 0
    /\ yearly_projections[1].total_equity > input_data.down_payment
    /\ summary.final_equity > yearly_projections[1].total_equity

\* ------------------------------------------------------------------------
\* C18: the management fee is charged on the rent adjusted for growth but
\* not for vacancy. Of two calls on valid inputs that differ only in the
\* vacancy rate, the records of the same year have the same expense
\* breakdown, principal paydown, remaining balance and total equity.
\* ------------------------------------------------------------------------

DifferOnlyInVacancy(a, b) ==
    /\ a.vacancy_rate # b.vacancy_rate
    /\ [a EXCEPT !.vacancy_rate = b.vacancy_rate] = b

C18_VacancyLeavesExpensesAlone ==
    (/\ DifferOnlyInVacancy(input_data, other.input_data)
     /\ SatisfiesInvariants(input_data)
     /\ SatisfiesInvariants(other.input_data)) =>
        /\ \A y \in 1..Len(yearly_projections) :
              yearly_projections[y].expenses.management
                = Mul(Mul(Mul(input_data.monthly_rent,
                              Pow(GrowthFactor(input_data), y - 1)),
                          Float(12)),
                      Div(input_data.management_fee_percent, Float(100)))
        /\ \A y \in 1..Len(yearly_projections) :
              y <= Len(other.yearly_projections) =>
                  LET p == yearly_projections[y]
                      q == other.yearly_projections[y]
                  IN  /\ p.expenses = q.expenses
                      /\ p.principal_paydown = q.principal_paydown
                      /\ p.remaining_balance = q.remaining_balance
                      /\ p.total_equity = q.total_equity

\* Both calls returned; the rental income and cash flows differ, the
\* management fee is charged and grows with the rent.
C18_Witness ==
    /\ returned
    /\ other.pc = "returned"
    /\ DifferOnlyInVacancy(input_data, other.input_data)
    /\ yearly_projections[2].rental_income
          # other.yearly_projections[2].rental_income
    /\ yearly_projections[2].net_cash_flow
          # other.yearly_projections[2].net_cash_flow
    /\ yearly_projections[2].expenses.management
          > yearly_projections[1].expenses.management
    /\ yearly_projections[2].expenses.management
          = other.yearly_projections[2].expenses.management

\* ------------------------------------------------------------------------
\* C19: the remaining balance recorded for a year is never negative and
\* never above the loan amount, so the principal paid down up to any year
\* never exceeds the loan amount and the total equity never exceeds the
\* property price.
\* ------------------------------------------------------------------------

C19_BalanceWithinLoan ==
    \A y \in 1..Len(yearly_projections) :
        /\ 0 <= yearly_projections[y].remaining_balance
        /\ yearly_projections[y].remaining_balance <= loan_amount_of(input_data)
        /\ SumUpTo(Paydowns(yearly_projections), y) <= loan_amount_of(input_data)
        /\ yearly_projections[y].total_equity <= input_data.property_price

\* ------------------------------------------------------------------------
\* C20: the early stop of the month replay is absorbing and bounds the
\* overshoot. Within a year every month replayed starts from a positive
\* balance, and the months stop short of 12 only on a balance <= 0; a year
\* that starts with a balance <= 0 replays no month, records a principal
\* paydown of 0 and leaves the balance unchanged; and the balance recorded
\* is above -(monthly P&I payment + monthly insurance charge).
\* ------------------------------------------------------------------------

C20_OvershootBounded ==
    \A y \in 1..Len(yearly_projections) :
        LET p == yearly_projections[y]
        IN  /\ replays[y].months > 0 => replays[y].last_start > 0
            /\ (y <= input_data.loan_term_years
                   /\ replays[y].months < MonthsPerYear) =>
                  p.remaining_balance <= 0
            /\ BalanceBefore(y) <= 0 =>
                  /\ replays[y].months = 0
                  /\ p.principal_paydown = 0
                  /\ p.remaining_balance = BalanceBefore(y)
            /\ p.remaining_balance
                  > -(terms[1].monthly_mortgage_payment
                        + terms[1].monthly_life_insurance)

\* A loan paid off more than a year before its term: the year of the
\* pay-off stops short on a negative balance, the next one, still within
\* the term, starts from it and replays nothing.
C20_Witness ==
    /\ returned
    /\ \E y \in 2..Len(yearly_projections) :
          /\ y <= input_data.loan_term_years
          /\ replays[y - 1].months \in 1..(MonthsPerYear - 1)
          /\ yearly_projections[y - 1].remaining_balance < 0
          /\ replays[y].months = 0
          /\ yearly_projections[y].remaining_balance
                = yearly_projections[y - 1].remaining_balance
====
